---- MODULE Spec2Model ----
(***************************************************************************)
(* Model of plc_connect.py: class data_transfer, a client that exchanges   *)
(* ASCII-hex command frames with a PLC over a socket.                      *)
(*                                                                         *)
(* Python strings are sequences of one-character strings.  Python values   *)
(* that read/write return are records [tag, int, items] (see PyInt etc.).  *)
(***************************************************************************)
EXTENDS Integers, Sequences, FiniteSets, TLC

(***************************************************************************)
(* Bounds of the model                                                     *)
(***************************************************************************)
\* number of read/write calls made on one data_transfer object
MaxCalls == 2
\* largest element count (the length argument) of the range 1..MaxLength
MaxLength == 3
\* largest number of 4-character payload slots in a response
MaxSlots == 2

(***************************************************************************)
(* Python string primitives                                                *)
(***************************************************************************)
DecDigits == <<"0","1","2","3","4","5","6","7","8","9">>
LowerHexDigits == DecDigits \o <<"a","b","c","d","e","f">>
UpperHexDigits == DecDigits \o <<"A","B","C","D","E","F">>
LowerLetters == <<"a","b","c","d","e","f","g","h","i","j","k","l","m",
                  "n","o","p","q","r","s","t","u","v","w","x","y","z">>
UpperLetters == <<"A","B","C","D","E","F","G","H","I","J","K","L","M",
                  "N","O","P","Q","R","S","T","U","V","W","X","Y","Z">>

Range(s) == {s[i] : i \in DOMAIN s}
IndexOf(s, c) == CHOOSE i \in DOMAIN s : s[i] = c
Min(a, b) == IF a < b THEN a ELSE b

\* s[a:b] for 0 <= a <= b
Slice(s, a, b) == SubSeq(s, a + 1, Min(b, Len(s)))

\* c.upper() for one character
UpperChar(c) == IF c \in Range(LowerLetters)
                THEN UpperLetters[IndexOf(LowerLetters, c)] ELSE c
\* s.upper()
Upper(s) == [i \in DOMAIN s |-> UpperChar(s[i])]

\* a string of n characters c
Repeat(c, n) == [i \in 1..n |-> c]

\* s.zfill(width): pad with zeros on the left, after a leading sign
Zfill(s, width) ==
  IF Len(s) >= width THEN s
  ELSE IF Len(s) > 0 /\ s[1] \in {"+", "-"}
       THEN <<s[1]>> \o Repeat("0", width - Len(s)) \o Tail(s)
       ELSE Repeat("0", width - Len(s)) \o s

\* digits of n >= 0 in the given base, most significant first
RECURSIVE Digits(_, _, _)
Digits(n, base, alphabet) ==
  IF n < base THEN <<alphabet[n + 1]>>
  ELSE Digits(n \div base, base, alphabet) \o <<alphabet[(n % base) + 1]>>

\* str(n)
Str(n) == IF n < 0 THEN <<"-">> \o Digits(-n, 10, DecDigits)
          ELSE Digits(n, 10, DecDigits)
\* format(n, 'x')
FormatHex(n) == IF n < 0 THEN <<"-">> \o Digits(-n, 16, LowerHexDigits)
                ELSE Digits(n, 16, LowerHexDigits)

\* value of one hexadecimal digit of either case
HexDigitValue(c) == IF c \in Range(LowerHexDigits)
                    THEN IndexOf(LowerHexDigits, c) - 1
                    ELSE IndexOf(UpperHexDigits, c) - 1
IsHexDigit(c) == c \in Range(LowerHexDigits) \cup Range(UpperHexDigits)

\* int(s, 16) raises ValueError: over the characters of ResponseChars a
\* literal is valid exactly when it is a non-empty run of hex digits
IntRaises(s) == s = <<>> \/ \E i \in DOMAIN s : ~IsHexDigit(s[i])
\* int(s, 16) for a valid literal
RECURSIVE IntBase16(_)
IntBase16(s) ==
  IF s = <<>> THEN 0
  ELSE 16 * IntBase16(SubSeq(s, 1, Len(s) - 1)) + HexDigitValue(s[Len(s)])

(***************************************************************************)
(* Python values returned by read and write                                *)
(***************************************************************************)
PyInt(n) == [tag |-> "int", int |-> n, items |-> <<>>]
\* the empty string ''
PyEmptyStr == [tag |-> "str", int |-> 0, items |-> <<>>]
PyNone == [tag |-> "None", int |-> 0, items |-> <<>>]
\* an exception object of class cls
PyExc(cls) == [tag |-> cls, int |-> 0, items |-> <<>>]
PyList(items) == [tag |-> "list", int |-> 0, items |-> items]
\* no value returned yet
NoValue == [tag |-> "unset", int |-> 0, items |-> <<>>]
ExceptionClasses == {"Exception", "ValueError"}

(***************************************************************************)
(* Request frames (data_transfer.read lines 119-122, write lines 172-176)  *)
(***************************************************************************)
EnvelopePrefix == <<"5","0","0","0","0","0","F","F","0","3","F","F","0","0">>
ReadOpcode == <<"0","0","1","0","0","4","0","1","0","0","0","0">>
WriteOpcode == <<"0","0","1","0","1","4","0","1","0","0","0","0">>

\* number = str(length).zfill(4)
ReadNumber(len) == Zfill(Str(len), 4)
\* cmd = '001004010000' + device + number
ReadBody(dev, len) == ReadOpcode \o dev \o ReadNumber(len)
\* cmd_length = format(len(cmd), 'x').zfill(4)
ReadCmdLength(body) == Zfill(FormatHex(Len(body)), 4)
\* cmd = ('500000FF03FF00' + cmd_length + cmd).upper()
ReadCmd(dev, len) ==
  Upper(EnvelopePrefix \o ReadCmdLength(ReadBody(dev, len)) \o ReadBody(dev, len))

\* number = str(length).zfill(4)
WriteNumber(len) == Zfill(Str(len), 4)
\* faulty variant: the value is not padded
WriteData_NoPad(val) == FormatHex(val)
\* data = format(data, 'x').zfill(4)
WriteData(val) == Zfill(FormatHex(val), 4)
\* cmd = '001014010000' + device + number + data
WriteBody(dev, val, len) == WriteOpcode \o dev \o WriteNumber(len) \o WriteData(val)
\* faulty variant: the body length is written in decimal
WriteCmdLength_Decimal(body) == Zfill(Str(Len(body)), 4)
\* cmd_length = format(len(cmd), 'x').zfill(4)
WriteCmdLength(body) == Zfill(FormatHex(Len(body)), 4)
\* cmd = ('500000FF03FF00' + cmd_length + cmd).upper()
WriteCmd(dev, val, len) ==
  Upper(EnvelopePrefix \o WriteCmdLength(WriteBody(dev, val, len))
        \o WriteBody(dev, val, len))

(***************************************************************************)
(* Response decoding (read lines 138-147, write lines 191-194)             *)
(***************************************************************************)
EndCodeOk == <<"0","0","0","0">>

\* faulty variant: the slice stops one character early
ReadDataError_ShortSlice(data) == Slice(data, 18, 21) # <<"0","0","0">>
\* recv_data[18:22] != '0000' in read
ReadDataError(data) == Slice(data, 18, 22) # EndCodeOk
\* recv_data[18:22] != '0000' in write
WriteDataError(data) == Slice(data, 18, 22) # EndCodeOk

\* faulty variant: the payload is taken to start at the end code
SlotPos_AtEndCode(i) == 4 * i + 18
\* pos = 4*i+22
SlotPos(i) == 4 * i + 22
\* recv_data[pos:pos+4]
SlotText(data, i) == Slice(data, SlotPos(i), SlotPos(i) + 4)
\* faulty variant: an empty slot is turned into the number 0
AbsentMarker_Zero == PyInt(0)
\* the value appended for an empty slot
AbsentMarker == PyEmptyStr
\* faulty variant: only a whole 4-character slot is decoded
DecodeSlot_WholeOnly(data, i) ==
  IF Len(SlotText(data, i)) = 4 THEN PyInt(IntBase16(SlotText(data, i)))
  ELSE AbsentMarker
\* the element appended for slot i (when int() does not raise)
DecodeSlot(data, i) ==
  IF SlotText(data, i) # <<>> THEN PyInt(IntBase16(SlotText(data, i)))
  ELSE AbsentMarker
\* the for loop raises ValueError at the first non-empty slot int() rejects
DecodeRaises(data, len) ==
  \E i \in 0..(len - 1) : SlotText(data, i) # <<>> /\ IntRaises(SlotText(data, i))
\* the list built by the for loop over range(length)
DecodeValues(data, len) == [k \in 1..len |-> DecodeSlot(data, k - 1)]

\* return [[None]]
ReadDataErrorResult == PyList(<<PyList(<<PyNone>>)>>)
\* return [[e]]
ReadExceptResult(cls) == PyList(<<PyList(<<PyExc(cls)>>)>>)
\* faulty variant: a device error is reported with the success code
WriteDataErrorResult_Zero == PyInt(0)
\* return 1 / return 0 / return e
WriteDataErrorResult == PyInt(1)
WriteOkResult == PyInt(0)
WriteExceptResult(cls) == PyExc(cls)

(***************************************************************************)
(* Inputs: arguments of the calls and the texts the PLC may answer with    *)
(***************************************************************************)
Modes == {"UDP", "TCP", "RS232"}
Devices == {<<"D","*","0","0","0","1","0","0">>, <<"w","*","0","0","0","0","a","0">>}
\* element counts: a range from 1, the last count of one decimal digit and
\* the first of two
Lengths == (1..MaxLength) \cup {9, 10}
Values == {10, 65535, 65536}

\* the 18 characters a response carries before its end code
ResponseHeader == <<"D","0","0","0","0","0","F","F","0","3","F","F","0","0","0","0","0","4">>
EndCodes == {EndCodeOk, <<"C","0","5","9">>, <<"0","0","0","1">>}
\* 4-character payload slots; the last one is no hexadecimal literal
SlotSet == {<<"0","0","0","1">>, <<"0","0","0","2">>, <<"0","0","f","F">>, <<"0","0","G","1">>}
ResponseChars == UNION {Range(x) : x \in {ResponseHeader} \cup EndCodes \cup SlotSet}

\* payloads of at most k whole slots
RECURSIVE Payloads(_)
Payloads(k) ==
  IF k = 0 THEN {<<>>}
  ELSE LET prev == Payloads(k - 1)
       IN  prev \cup {p \o x : p \in {q \in prev : Len(q) = 4 * (k - 1)}, x \in SlotSet}

\* every text sock.recv(1024).decode('utf-8') may return: a whole response,
\* or one cut short anywhere (down to the empty string)
Responses ==
  UNION {{SubSeq(ResponseHeader \o e \o p, 1, n) :
            n \in 0..Len(ResponseHeader \o e \o p)} :
         e \in EndCodes, p \in Payloads(MaxSlots)}

(***************************************************************************)
(* The socket under data_transfer                                          *)
(***************************************************************************)
\* outcomes of the operating system's calls in __init__
CtorOutcomes == {"ok", "socket_fails", "connect_fails"}
\* outcomes of sock.send on a connected socket
SendOutcomes == {"ok", "error"}
\* outcomes of sock.recv(1024).decode('utf-8'): an exception (timeout, socket
\* error, undecodable bytes) or a text
RecvOutcomes == {[raises |-> TRUE, text |-> <<>>]}
                \cup {[raises |-> FALSE, text |-> r] : r \in Responses}

\* self.__sock after __init__: "unset" (attribute never assigned), "open"
\* (connected, timeout set), "unconnected" (created, connect raised)
CtorSock(m, os) ==
  IF m \notin {"UDP", "TCP"} \/ os = "socket_fails" THEN "unset"
  ELSE IF os = "connect_fails" THEN "unconnected"
  ELSE "open"
\* faulty variant: a bare except clause, which catches the AttributeError too
CtorRaises_Never(m, os) == FALSE
\* faulty variant: no except clause, the socket.error of connect escapes
CtorRaises_Uncaught(m, os) ==
  m \notin {"UDP", "TCP"} \/ os \in {"socket_fails", "connect_fails"}
\* __init__ lets an exception escape: self.__sock.connect on the missing
\* attribute raises AttributeError, which except socket.error does not catch
CtorRaises(m, os) == m \notin {"UDP", "TCP"}
\* the messages __init__ prints: line 29 for an unsupported mode, line 34
\* when socket.socket or connect raised socket.error
CtorPrints(m, os) ==
  IF m \notin {"UDP", "TCP"} THEN <<"mode should be UDP or TCP">>
  ELSE IF os \in {"socket_fails", "connect_fails"}
       THEN <<"socket.error : can't establish connection!!">>
       ELSE <<>>

\* self.__sock.send(...) raises
SockSendRaises(s, net) == s # "open" \/ net = "error"
\* send(self, cmd): return_cd
Send(s, net) == IF SockSendRaises(s, net) THEN 1 ELSE 0
\* an exception leaves send: the bare except clause catches every one
SendEscapes(s, net) == FALSE
\* self.__sock.recv(1024).decode('utf-8') raises
SockRecvRaises(s, o) == s # "open" \/ o.raises
\* faulty variant: data is bound before the failure is noticed
Recv_KeepsData(s, o) == IF SockRecvRaises(s, o) THEN <<1, o.text>> ELSE <<0, o.text>>
\* recv(self): (return_cd, data); data stays the empty list on failure
Recv(s, o) == IF SockRecvRaises(s, o) THEN <<1, <<>>>> ELSE <<0, o.text>>
\* an exception leaves recv: the bare except clause catches every one
RecvEscapes(s, o) == FALSE
\* the requests whose response a successful receive may deliver: the one
\* sent by this call unless it was delivered already, and the late response
\* to an earlier request; nothing in recv or in the socket tells them apart
RecvSources(late, got) ==
  (IF "cur" \in Range(got) THEN {} ELSE {"cur"})
  \cup (IF late > 0 THEN {"old"} ELSE {})
\* self.__sock.close() raises socket.error: only the operating system's close
\* of a live descriptor can; closing a closed socket object does nothing
SockCloseRaises(s, os) == s \in {"open", "unconnected"} /\ os = "error"
\* close(self): return_cd. AttributeError on the missing attribute is not a
\* socket.error; the return in the finally clause discards it
CloseReturn(s, os) == IF SockCloseRaises(s, os) THEN 1 ELSE 0
\* faulty variant: without the return in the finally clause the
\* AttributeError, which except socket.error does not catch, propagates
CloseEscapes_NoFinally(s, os) == s = "unset"
\* an exception leaves close: never, the return in the finally clause
\* discards whatever is propagating
CloseEscapes(s, os) == FALSE
\* faulty variant: close leaves the socket as it is
SockAfterClose_Untouched(s) == s
\* self.__sock after self.__sock.close()
SockAfterClose(s) == IF s = "unset" THEN "unset" ELSE "closed"

(***************************************************************************)
(* State                                                                   *)
(***************************************************************************)
VARIABLES
  sock,        \* state of self.__sock
  init_exc,    \* __init__ raised: the caller holds no object
  mode,        \* argument mode of __init__, "none" once the caller moved on
  ctor_os,     \* what the operating system did in __init__, "none" likewise
  init_log,    \* the messages __init__ printed
  deleted,     \* __del__ has run
  close_log,   \* the outcome of every close() so far, oldest first
  t_ret,       \* outcome of a send() or recv() called by the caller itself
  closes,      \* number of close() calls so far
  close_rc,    \* return value of the last close(), -1 before the first
  calls,       \* number of read/write calls begun
  pc,          \* position of the current call: "idle", "recv", "retry", "done",
               \* "tdone" (a send() or recv() of the caller has returned)
  op,          \* "none", "read", "write"
  device,      \* argument device
  length,      \* argument length
  value,       \* argument data of write
  cmd,         \* the frame built by the call
  sends,       \* return codes of the self.send calls of this call
  recvs,       \* return codes of the self.recv calls of this call
  rtn_cd,      \* local rtn_cd
  recv_data,   \* local recv_data
  retry_cntr,  \* local retry_cntr
  decoded,     \* the texts that reached the status check (line 138/191)
  result,      \* the value returned by the call
  ret_line,    \* source line of the return statement taken, 0 while running
  prev_retries,\* retried receives made by the earlier calls
  stale,       \* requests of earlier calls that reached the PLC and whose
               \* response has not been received: it may still arrive
  answers      \* per self.recv call of this call, the request its text
               \* answers: "cur" (this call's), "old" (an earlier one's),
               \* "none" (the receive failed)

connVars == <<sock, init_exc, closes, close_rc, close_log, deleted, init_log>>
argVars == <<op, device, length, value, cmd>>
vars == <<sock, init_exc, mode, ctor_os, init_log, deleted, close_log, t_ret,
          closes, close_rc, calls, pc, op, device, length,
          value, cmd, sends, recvs, rtn_cd, recv_data, retry_cntr, decoded,
          result, ret_line, prev_retries, stale, answers>>

\* no send() or recv() of the caller has returned
NoTransportCall == [op |-> "none", rc |-> 0, data |-> <<>>, raised |-> FALSE]
\* the arguments and locals of __init__ are gone once the caller moves on
CtorLocalsGone == mode' = "none" /\ ctor_os' = "none"

\* largest number of close() calls
MaxCloses == 2

Init ==
  /\ \E m \in Modes, os \in CtorOutcomes :
       /\ mode = m
       /\ ctor_os = os
       /\ sock = CtorSock(m, os)
       /\ init_exc = CtorRaises(m, os)
       /\ init_log = CtorPrints(m, os)
  /\ deleted = FALSE
  /\ close_log = <<>>
  /\ t_ret = NoTransportCall
  /\ closes = 0
  /\ close_rc = -1
  /\ calls = 0
  /\ pc = "idle"
  /\ op = "none"
  /\ device = <<>>
  /\ length = 0
  /\ value = 0
  /\ cmd = <<>>
  /\ sends = <<>>
  /\ recvs = <<>>
  /\ rtn_cd = 0
  /\ recv_data = <<>>
  /\ retry_cntr = 0
  /\ decoded = <<>>
  /\ result = NoValue
  /\ ret_line = 0
  /\ prev_retries = 0
  /\ stale = 0
  /\ answers = <<>>

(***************************************************************************)
(* close (lines 39-56)                                                     *)
(***************************************************************************)
\* the body of close, run by close() and by __del__
CloseBody ==
  /\ \E os \in {"ok", "error"} :
       /\ close_rc' = CloseReturn(sock, os)
       /\ close_log' = Append(close_log, [rc |-> CloseReturn(sock, os),
                                          raised |-> CloseEscapes(sock, os)])
  /\ sock' = SockAfterClose(sock)
  /\ closes' = closes + 1
  /\ stale' = IF SockAfterClose(sock) = "open" THEN stale ELSE 0
  /\ CtorLocalsGone
  /\ UNCHANGED <<init_exc, init_log, t_ret, calls, pc, argVars, sends, recvs,
                 rtn_cd, recv_data, retry_cntr, decoded, result, ret_line,
                 prev_retries, answers>>

\* close() called by the holder of the object
Close ==
  /\ pc = "idle"
  /\ ~init_exc /\ ~deleted
  /\ closes < MaxCloses
  /\ CloseBody
  /\ UNCHANGED deleted

\* __del__ (lines 36-37): the object is collected, close() runs once more.
\* It is the only thing that happens to an object whose __init__ raised.
Del ==
  /\ pc = "idle"
  /\ ~deleted
  /\ closes < MaxCloses
  /\ CloseBody
  /\ deleted' = TRUE

(***************************************************************************)
(* send() and recv() called by the caller itself (lines 58-100)            *)
(***************************************************************************)
SendDirect ==
  /\ pc = "idle"
  /\ ~init_exc /\ ~deleted
  /\ calls < MaxCalls
  /\ calls' = calls + 1
  /\ \E net \in SendOutcomes :
       /\ t_ret' = [op |-> "send", rc |-> Send(sock, net), data |-> <<>>,
                    raised |-> SendEscapes(sock, net)]
       /\ stale' = IF Send(sock, net) = 0 THEN stale + 1 ELSE stale
  /\ pc' = "tdone"
  /\ CtorLocalsGone
  /\ UNCHANGED <<connVars, argVars, sends, recvs, rtn_cd, recv_data,
                 retry_cntr, decoded, result, ret_line, prev_retries, answers>>

\* a text arrives only in answer to a request sent before
RecvDirect ==
  /\ pc = "idle"
  /\ ~init_exc /\ ~deleted
  /\ calls < MaxCalls
  /\ calls' = calls + 1
  /\ \E o \in {x \in RecvOutcomes : x.raises \/ stale > 0} :
       /\ t_ret' = [op |-> "recv", rc |-> Recv(sock, o)[1],
                    data |-> Recv(sock, o)[2], raised |-> RecvEscapes(sock, o)]
       /\ stale' = IF Recv(sock, o)[1] = 0 THEN stale - 1 ELSE stale
  /\ pc' = "tdone"
  /\ CtorLocalsGone
  /\ UNCHANGED <<connVars, argVars, sends, recvs, rtn_cd, recv_data,
                 retry_cntr, decoded, result, ret_line, prev_retries, answers>>

(***************************************************************************)
(* read (lines 102-150)                                                    *)
(***************************************************************************)
\* faulty variant: only a negative code counts as a failed send
ReadSendFailed_Negative(rc) == rc < 0
\* if self.send(cmd) != 0
ReadSendFailed(rc) == rc # 0
\* while rtn_cd != 0
ReadRecvFailed(rc) == rc # 0
\* faulty variant: the loop gives up after the second retry
ReadRetryExhausted_AfterTwo(cntr) == cntr > 1
\* if retry_cntr > 0
ReadRetryExhausted(cntr) == cntr > 0

\* lines 138-147 and the except clause: the value returned once a receive
\* succeeded, with the line of the return statement
ReadReturn(data, len) ==
  IF ReadDataError(data) THEN [value |-> ReadDataErrorResult, line |-> 140]
  ELSE IF DecodeRaises(data, len)
       THEN [value |-> ReadExceptResult("ValueError"), line |-> 150]
       ELSE [value |-> PyList(DecodeValues(data, len)), line |-> 147]

\* lines 119-128: build the frame and send it
ReadCall(dev, len, net) ==
  /\ pc = "idle"
  /\ ~init_exc /\ ~deleted
  /\ calls < MaxCalls
  /\ calls' = calls + 1
  /\ op' = "read" /\ device' = dev /\ length' = len /\ value' = 0
  /\ cmd' = ReadCmd(dev, len)
  /\ sends' = <<Send(sock, net)>>
  /\ recvs' = <<>> /\ rtn_cd' = 0 /\ recv_data' = <<>> /\ retry_cntr' = 0
  /\ decoded' = <<>> /\ answers' = <<>>
  /\ IF ReadSendFailed(Send(sock, net))
     THEN /\ result' = ReadExceptResult("Exception")
          /\ ret_line' = 150
          /\ pc' = "done"
     ELSE /\ result' = NoValue
          /\ ret_line' = 0
          /\ pc' = "recv"
  /\ CtorLocalsGone
  /\ UNCHANGED <<connVars, t_ret, prev_retries, stale>>

\* lines 129-131, and 138-147 when the receive succeeded
ReadRecv ==
  /\ pc = "recv" /\ op = "read"
  /\ \E o \in RecvOutcomes, src \in RecvSources(stale, answers) :
     LET r == Recv(sock, o) IN
       /\ answers' = Append(answers, IF r[1] = 0 THEN src ELSE "none")
       /\ stale' = IF r[1] = 0 /\ src = "old" THEN stale - 1 ELSE stale
       /\ rtn_cd' = r[1]
       /\ recv_data' = r[2]
       /\ recvs' = Append(recvs, r[1])
       /\ retry_cntr' = 0
       /\ IF ReadRecvFailed(r[1])
          THEN /\ pc' = "retry"
               /\ UNCHANGED <<decoded, result, ret_line>>
          ELSE /\ pc' = "done"
               /\ decoded' = <<r[2]>>
               /\ result' = ReadReturn(r[2], length).value
               /\ ret_line' = ReadReturn(r[2], length).line
  /\ CtorLocalsGone
  /\ UNCHANGED <<connVars, t_ret, calls, argVars, sends, prev_retries>>

\* one pass of the while loop, lines 132-137, and what follows it when the
\* loop ends
ReadRetry ==
  /\ pc = "retry" /\ op = "read"
  /\ \E o \in RecvOutcomes, src \in RecvSources(stale, answers) :
     LET r == Recv(sock, o) IN
       /\ answers' = Append(answers, IF r[1] = 0 THEN src ELSE "none")
       /\ stale' = IF r[1] = 0 /\ src = "old" THEN stale - 1 ELSE stale
       /\ retry_cntr' = retry_cntr + 1
       /\ rtn_cd' = r[1]
       /\ recv_data' = r[2]
       /\ recvs' = Append(recvs, r[1])
       /\ IF ReadRetryExhausted(retry_cntr + 1)
          THEN /\ result' = ReadExceptResult("Exception")
               /\ ret_line' = 150
               /\ pc' = "done"
               /\ UNCHANGED decoded
          ELSE IF ReadRecvFailed(r[1])
               THEN /\ pc' = "retry"
                    /\ UNCHANGED <<decoded, result, ret_line>>
               ELSE /\ pc' = "done"
                    /\ decoded' = <<r[2]>>
                    /\ result' = ReadReturn(r[2], length).value
                    /\ ret_line' = ReadReturn(r[2], length).line
  /\ CtorLocalsGone
  /\ UNCHANGED <<connVars, t_ret, calls, argVars, sends, prev_retries>>

(***************************************************************************)
(* write (lines 152-197)                                                   *)
(***************************************************************************)
\* faulty variant: only a negative code counts as a failed send
WriteSendFailed_Negative(rc) == rc < 0
\* if self.send(cmd) != 0
WriteSendFailed(rc) == rc # 0
\* while rtn_cd != 0
WriteRecvFailed(rc) == rc # 0
\* faulty variant: the loop gives up after the second retry
WriteRetryExhausted_AfterTwo(cntr) == cntr > 1
\* if retry_cntr > 0
WriteRetryExhausted(cntr) == cntr > 0

\* lines 191-194
WriteReturn(data) ==
  IF WriteDataError(data) THEN [value |-> WriteDataErrorResult, line |-> 193]
  ELSE [value |-> WriteOkResult, line |-> 194]

\* lines 172-181: build the frame and send it
WriteCall(dev, val, len, net) ==
  /\ pc = "idle"
  /\ ~init_exc /\ ~deleted
  /\ calls < MaxCalls
  /\ calls' = calls + 1
  /\ op' = "write" /\ device' = dev /\ length' = len /\ value' = val
  /\ cmd' = WriteCmd(dev, val, len)
  /\ sends' = <<Send(sock, net)>>
  /\ recvs' = <<>> /\ rtn_cd' = 0 /\ recv_data' = <<>> /\ retry_cntr' = 0
  /\ decoded' = <<>> /\ answers' = <<>>
  /\ IF WriteSendFailed(Send(sock, net))
     THEN /\ result' = WriteExceptResult("Exception")
          /\ ret_line' = 197
          /\ pc' = "done"
     ELSE /\ result' = NoValue
          /\ ret_line' = 0
          /\ pc' = "recv"
  /\ CtorLocalsGone
  /\ UNCHANGED <<connVars, t_ret, prev_retries, stale>>

\* lines 182-184, and 191-194 when the receive succeeded
WriteRecv ==
  /\ pc = "recv" /\ op = "write"
  /\ \E o \in RecvOutcomes, src \in RecvSources(stale, answers) :
     LET r == Recv(sock, o) IN
       /\ answers' = Append(answers, IF r[1] = 0 THEN src ELSE "none")
       /\ stale' = IF r[1] = 0 /\ src = "old" THEN stale - 1 ELSE stale
       /\ rtn_cd' = r[1]
       /\ recv_data' = r[2]
       /\ recvs' = Append(recvs, r[1])
       /\ retry_cntr' = 0
       /\ IF WriteRecvFailed(r[1])
          THEN /\ pc' = "retry"
               /\ UNCHANGED <<decoded, result, ret_line>>
          ELSE /\ pc' = "done"
               /\ decoded' = <<r[2]>>
               /\ result' = WriteReturn(r[2]).value
               /\ ret_line' = WriteReturn(r[2]).line
  /\ CtorLocalsGone
  /\ UNCHANGED <<connVars, t_ret, calls, argVars, sends, prev_retries>>

\* one pass of the while loop, lines 185-190, and what follows it when the
\* loop ends
WriteRetry ==
  /\ pc = "retry" /\ op = "write"
  /\ \E o \in RecvOutcomes, src \in RecvSources(stale, answers) :
     LET r == Recv(sock, o) IN
       /\ answers' = Append(answers, IF r[1] = 0 THEN src ELSE "none")
       /\ stale' = IF r[1] = 0 /\ src = "old" THEN stale - 1 ELSE stale
       /\ retry_cntr' = retry_cntr + 1
       /\ rtn_cd' = r[1]
       /\ recv_data' = r[2]
       /\ recvs' = Append(recvs, r[1])
       /\ IF WriteRetryExhausted(retry_cntr + 1)
          THEN /\ result' = WriteExceptResult("Exception")
               /\ ret_line' = 197
               /\ pc' = "done"
               /\ UNCHANGED decoded
          ELSE IF WriteRecvFailed(r[1])
               THEN /\ pc' = "retry"
                    /\ UNCHANGED <<decoded, result, ret_line>>
               ELSE /\ pc' = "done"
                    /\ decoded' = <<r[2]>>
                    /\ result' = WriteReturn(r[2]).value
                    /\ ret_line' = WriteReturn(r[2]).line
  /\ CtorLocalsGone
  /\ UNCHANGED <<connVars, t_ret, calls, argVars, sends, prev_retries>>

(***************************************************************************)
(* The call returns to its caller: the locals of read/write are gone       *)
(***************************************************************************)
Return ==
  /\ pc \in {"done", "tdone"}
  /\ pc' = "idle"
  /\ op' = "none" /\ device' = <<>> /\ length' = 0 /\ value' = 0 /\ cmd' = <<>>
  /\ sends' = <<>> /\ recvs' = <<>> /\ rtn_cd' = 0 /\ recv_data' = <<>>
  /\ retry_cntr' = 0 /\ decoded' = <<>> /\ result' = NoValue /\ ret_line' = 0
  /\ prev_retries' = prev_retries + retry_cntr
  /\ stale' = IF sends = <<0>> /\ "cur" \notin Range(answers)
              THEN stale + 1 ELSE stale
  /\ answers' = <<>>
  /\ t_ret' = NoTransportCall
  /\ CtorLocalsGone
  /\ UNCHANGED <<connVars, calls>>

(***************************************************************************)
(* Specification                                                           *)
(***************************************************************************)
Next ==
  \/ Close
  \/ Del
  \/ \E dev \in Devices, len \in Lengths, net \in SendOutcomes :
       ReadCall(dev, len, net)
  \/ ReadRecv
  \/ ReadRetry
  \/ \E dev \in Devices, val \in Values, len \in Lengths, net \in SendOutcomes :
       WriteCall(dev, val, len, net)
  \/ WriteRecv
  \/ WriteRetry
  \/ Return

Spec == Init /\ [][Next]_vars

\* the caller uses the transport operations themselves
TransportNext ==
  \/ Close
  \/ Del
  \/ SendDirect
  \/ RecvDirect
  \/ Return

TransportSpec == Init /\ [][TransportNext]_vars

(***************************************************************************)
(* Properties                                                              *)
(***************************************************************************)
Done == pc = "done"

\* the end code of a response text: the characters at offsets 18..22
StatusText(text) == Slice(text, 18, 22)
\* the characters of payload slot i (0-based): offsets 22+4i .. 26+4i
PayloadSlot(text, i) == Slice(text, 22 + 4 * i, 26 + 4 * i)
\* a 4-character hexadecimal field read positionally
HexField(f) == 4096 * HexDigitValue(f[1]) + 256 * HexDigitValue(f[2])
               + 16 * HexDigitValue(f[3]) + HexDigitValue(f[4])
AllHex(f) == \A k \in DOMAIN f : IsHexDigit(f[k])

\* shapes of the values read returns
ReadSuccessShape(v) ==
  v.tag = "list" /\ \A k \in DOMAIN v.items : v.items[k].tag \in {"int", "str"}
ReadDataErrorShape(v) == v = PyList(<<PyList(<<PyNone>>)>>)
ReadTransportErrorShape(v) ==
  /\ v.tag = "list" /\ Len(v.items) = 1
  /\ v.items[1].tag = "list" /\ Len(v.items[1].items) = 1
  /\ v.items[1].items[1].tag \in ExceptionClasses
\* shapes of the values write returns
WriteSuccessShape(v) == v = PyInt(0)
WriteDataErrorShape(v) == v = PyInt(1)
WriteTransportErrorShape(v) == v.tag \in ExceptionClasses

SuccessShape == IF op = "read" THEN ReadSuccessShape(result)
                ELSE WriteSuccessShape(result)
DataErrorShape == IF op = "read" THEN ReadDataErrorShape(result)
                  ELSE WriteDataErrorShape(result)
TransportErrorShape == IF op = "read" THEN ReadTransportErrorShape(result)
                       ELSE WriteTransportErrorShape(result)
\* how many of the three shapes the returned value has
ShapeCount == (IF SuccessShape THEN 1 ELSE 0) + (IF DataErrorShape THEN 1 ELSE 0)
              + (IF TransportErrorShape THEN 1 ELSE 0)

\* C1: when the send succeeds, the first receive fails and the second
\* receive succeeds with end code "0000", the call succeeds with the second
\* response: read returns the values decoded from it, write returns 0.
C1_SecondAttemptUsed ==
  (Done /\ sends = <<0>> /\ recvs = <<1, 0>>
     /\ StatusText(recv_data) = EndCodeOk)
  => /\ ~TransportErrorShape
     /\ op = "write" => result = PyInt(0)
     /\ op = "read" =>
          /\ result.tag = "list" /\ Len(result.items) = length
          /\ \A i \in 0..(length - 1) :
               (Len(PayloadSlot(recv_data, i)) = 4 /\ AllHex(PayloadSlot(recv_data, i)))
               => result.items[i + 1] = PyInt(HexField(PayloadSlot(recv_data, i)))

\* C2: when the send succeeds and the first receive and the one retried
\* receive both fail, the call has ended with a transport-error value after
\* exactly two receive attempts.
C2_BothReceivesFail ==
  (sends = <<0>> /\ Len(recvs) >= 2 /\ recvs[1] = 1 /\ recvs[2] = 1)
  => /\ Done
     /\ Len(recvs) = 2
     /\ TransportErrorShape
C2_Witness ==
  Done /\ op = "read" /\ sends = <<0>> /\ recvs = <<1, 1>> /\ ret_line = 150

\* C3: a response that reaches the status check with anything but "0000" at
\* offsets 18..22 (shorter responses included) gives the data-error value:
\* [[None]] from read, 1 from write.
C3_StatusCheck ==
  (Done /\ decoded # <<>> /\ StatusText(decoded[1]) # EndCodeOk)
  => /\ DataErrorShape
     /\ ~SuccessShape
C3_Witness ==
  /\ Done /\ op = "read" /\ decoded # <<>>
  /\ Len(decoded[1]) = 21
  /\ result = PyList(<<PyList(<<PyNone>>)>>)

\* C4: when the send fails the call has ended with a transport-error value,
\* with that one send attempt and no receive attempt.
C4_SendFails ==
  (sends # <<>> /\ sends[1] = 1)
  => /\ Done
     /\ sends = <<1>>
     /\ recvs = <<>>
     /\ TransportErrorShape
C4_Witness ==
  Done /\ op = "write" /\ sock = "open" /\ sends = <<1>> /\ recvs = <<>>

\* C5: a call that has begun is one receive step from its end or at most
\* two; it ends with a value of exactly one of the three shapes, after one
\* send attempt and as many receive attempts (at most two) as this call's
\* own outcomes decide, whatever the earlier calls did.
C5_OneRunPerCall ==
  /\ pc = "recv" => sends = <<0>> /\ recvs = <<>>
  /\ pc = "retry" => sends = <<0>> /\ recvs = <<1>>
  /\ pc \in {"recv", "retry"} =>
       ENABLED (ReadRecv \/ ReadRetry \/ WriteRecv \/ WriteRetry)
  /\ Done =>
       /\ ShapeCount = 1
       /\ Len(sends) = 1
       /\ Len(recvs) = (IF sends[1] # 0 THEN 0 ELSE IF recvs[1] = 0 THEN 1 ELSE 2)
       /\ retry_cntr = (IF Len(recvs) = 2 THEN 1 ELSE 0)
C5_Witness ==
  Done /\ calls = 2 /\ prev_retries = 1 /\ recvs = <<1, 1>> /\ retry_cntr = 1

\* C6: a success value (a list of values from read, 0 from write) is
\* returned only by a call whose send succeeded and one of whose receives
\* succeeded with a response of end code "0000".
C6_NoSilentSuccess ==
  (Done /\ SuccessShape)
  => /\ sends = <<0>>
     /\ \E k \in DOMAIN recvs : recvs[k] = 0
     /\ rtn_cd = 0
     /\ StatusText(recv_data) = EndCodeOk
C6_Witness ==
  Done /\ op = "write" /\ result = PyInt(0) /\ sends = <<0>> /\ recvs = <<0>>

\* C7: the value returned tells the outcome: it has exactly one of the
\* three shapes, and that shape is the one of the return statement taken
\* (147/194 success, 140/193 data error, 150/197 exception).
C7_OutcomesDistinct ==
  Done =>
    /\ ShapeCount = 1
    /\ SuccessShape <=> ret_line \in {147, 194}
    /\ DataErrorShape <=> ret_line \in {140, 193}
    /\ TransportErrorShape <=> ret_line \in {150, 197}
C7_Witness ==
  Done /\ op = "write" /\ ret_line = 193 /\ result = PyInt(1)

\* C8: a read of L >= 1 elements that decodes a response of end code "0000"
\* whose payload holds at least L slots of hex digits returns exactly L
\* integers, element i being slot i (offsets 22+4i..26+4i) read as
\* hexadecimal.
C8_DecodeValues ==
  (/\ Done /\ op = "read" /\ decoded # <<>>
   /\ StatusText(recv_data) = EndCodeOk
   /\ Len(recv_data) >= 22 + 4 * length
   /\ \A i \in 0..(length - 1) : AllHex(PayloadSlot(recv_data, i)))
  => /\ result.tag = "list"
     /\ Len(result.items) = length
     /\ \A i \in 0..(length - 1) :
          result.items[i + 1] = PyInt(HexField(PayloadSlot(recv_data, i)))
C8_Witness ==
  /\ Done /\ op = "read" /\ length = 2
  /\ recv_data = ResponseHeader \o EndCodeOk \o <<"0","0","0","1","0","0","0","2">>
  /\ result = PyList(<<PyInt(1), PyInt(2)>>)

\* C9 as stated: in a read that decodes a response of end code "0000", every
\* requested slot that is empty gives the absent marker in a result of
\* exactly length elements.
C9_EmptySlotAbsent ==
  (Done /\ op = "read" /\ decoded # <<>> /\ StatusText(recv_data) = EndCodeOk)
  => \A i \in 0..(length - 1) :
       PayloadSlot(recv_data, i) = <<>>
       => /\ result.tag = "list"
          /\ Len(result.items) = length
          /\ result.items[i + 1] = PyEmptyStr
\* C9 amended: the same, for responses whose requested non-empty slots are
\* all hexadecimal literals.
C9_EmptySlotAbsentHex ==
  (/\ Done /\ op = "read" /\ decoded # <<>>
   /\ StatusText(recv_data) = EndCodeOk
   /\ \A i \in 0..(length - 1) : AllHex(PayloadSlot(recv_data, i)))
  => /\ ReadSuccessShape(result)
     /\ Len(result.items) = length
     /\ \A i \in 0..(length - 1) :
          PayloadSlot(recv_data, i) = <<>> => result.items[i + 1] = PyEmptyStr
C9_Witness ==
  /\ Done /\ op = "read" /\ length = 2
  /\ recv_data = ResponseHeader \o EndCodeOk \o <<"0","0","0","1">>
  /\ result = PyList(<<PyInt(1), PyEmptyStr>>)

\* the frame C10 describes: number is L as 4 zero-padded hexadecimal digits
C10_Body(dev, len) == ReadOpcode \o dev \o Zfill(FormatHex(len), 4)
\* C10: the frame read sends is uppercased("500000FF03FF00" + bodyLen +
\* "001004010000" + D + number), number being L in 4 hexadecimal digits and
\* bodyLen the length of what follows it in 4 hexadecimal digits.
C10_ReadFrame ==
  (op = "read" /\ sends # <<>>)
  => cmd = Upper(EnvelopePrefix
                 \o Zfill(FormatHex(Len(C10_Body(device, length))), 4)
                 \o C10_Body(device, length))

\* C11: for L in 1..9 and V in 0..0xFFFF the frame write sends is
\* uppercased("500000FF03FF00" + bodyLen + "001014010000" + D + number +
\* valueHex), number being L in 4 zero-padded digits and valueHex being V in
\* exactly 4 hexadecimal digits, which are upper case in the frame.
C11_ValueField == Slice(cmd, Len(cmd) - 4, Len(cmd))
C11_Body(dev, val, len) ==
  WriteOpcode \o dev \o Repeat("0", 3) \o <<DecDigits[len + 1]>>
  \o Repeat("0", 4 - Len(FormatHex(val))) \o FormatHex(val)
C11_WriteFrame ==
  (op = "write" /\ sends # <<>> /\ length \in 1..9 /\ value \in 0..65535)
  => /\ cmd = Upper(EnvelopePrefix
                    \o Zfill(FormatHex(Len(C11_Body(device, value, length))), 4)
                    \o C11_Body(device, value, length))
     /\ Len(cmd) = 18 + 12 + Len(device) + 4 + 4
     /\ \A k \in 1..4 : C11_ValueField[k] \in Range(UpperHexDigits)
     /\ HexField(C11_ValueField) = value
C11_Witness ==
  /\ op = "write" /\ sends = <<0>> /\ length = 2 /\ value = 10
  /\ C11_ValueField = <<"0","0","0","A">>

\* C12: in every frame sent by read or write, the 4 characters at offsets
\* 14..18 read as hexadecimal are the number of characters that follow them,
\* also for values above 0xFFFF.
C12_BodyLength ==
  (op \in {"read", "write"} /\ sends # <<>>)
  => /\ Len(cmd) >= 18
     /\ AllHex(Slice(cmd, 14, 18))
     /\ HexField(Slice(cmd, 14, 18)) = Len(cmd) - 18
C12_Witness ==
  /\ op = "write" /\ sends = <<0>> /\ value = 65536
  /\ Len(cmd) = 18 + 12 + Len(device) + 4 + 5
  /\ Slice(cmd, 14, 18) = <<"0","0","1","D">>

\* C13: of two close() calls on one object neither raises, the first
\* returns 0 and the second returns 1.
C13_SecondCloseFails ==
  Len(close_log) >= 2
  => /\ ~close_log[1].raised /\ ~close_log[2].raised
     /\ close_log[1].rc = 0
     /\ close_log[2].rc = 1

\* C14: __init__ with a mode that is neither "UDP" nor "TCP" raises, and the
\* object whose __init__ raised is never used: no read, write, send or recv
\* is called on it, and close only by its __del__.
C14_BadModeRejected ==
  /\ mode \notin {"UDP", "TCP", "none"} => init_exc
  /\ init_exc =>
       /\ sock = "unset"
       /\ calls = 0 /\ pc = "idle" /\ op = "none" /\ t_ret = NoTransportCall
       /\ closes <= 1
       /\ closes = 1 => deleted
C14_Witness ==
  /\ init_exc /\ sock = "unset" /\ calls = 0
  /\ init_log = <<"mode should be UDP or TCP">>
  /\ deleted /\ closes = 1

\* C15: send, recv and close return in every state of the socket and let no
\* exception out: send returns 0 or 1, recv a code 0 or 1 with empty data
\* when the code is 1, close 0 or 1.
C15_TransportNeverRaises ==
  /\ ~t_ret.raised
  /\ t_ret.rc \in {0, 1}
  /\ (t_ret.op = "recv" /\ t_ret.rc = 1) => t_ret.data = <<>>
  /\ \A k \in DOMAIN close_log :
       close_log[k].rc \in {0, 1} /\ ~close_log[k].raised
  /\ (pc = "idle" /\ ~init_exc /\ ~deleted /\ calls < MaxCalls)
       => ENABLED SendDirect /\ ENABLED RecvDirect
  /\ (pc = "idle" /\ ~deleted /\ closes < MaxCloses) => ENABLED Del
C15_Witness ==
  /\ pc = "tdone" /\ sock = "unset" /\ closes = 1
  /\ t_ret.op = "recv" /\ t_ret.rc = 1 /\ t_ret.data = <<>>

\* C16: when connect raises socket.error in __init__, __init__ prints the
\* connection error and returns: no exception reaches the caller.
C16_ConnectFailureReported ==
  (mode \in {"UDP", "TCP"} /\ ctor_os = "connect_fails")
  => /\ ~init_exc
     /\ init_log = <<"socket.error : can't establish connection!!">>
     /\ sock = "unconnected"
C16_Witness ==
  mode = "TCP" /\ ctor_os = "connect_fails" /\ ~init_exc /\ sock = "unconnected"

\* C18: a read or write begun after close() has been called ends with a
\* transport-error value after its one failed send, with no receive attempt.
C18_AfterClose ==
  (closes > 0 /\ op \in {"read", "write"})
  => /\ Done
     /\ sends = <<1>>
     /\ recvs = <<>>
     /\ TransportErrorShape
C18_Witness ==
  /\ Done /\ op = "read" /\ closes = 1 /\ sock = "closed"
  /\ sends = <<1>> /\ recvs = <<>>
  /\ result = PyList(<<PyList(<<PyExc("Exception")>>)>>)

\* C19: in a success result of read the absent markers form a suffix, and
\* the number of integers is min(length, ceil(max(0, n - 22) / 4)) for a
\* response of n characters: a last slot of 1 to 3 characters is a number.
C19_Numeric == {k \in DOMAIN result.items : result.items[k].tag = "int"}
C19_Slots == IF Len(recv_data) > 22 THEN (Len(recv_data) - 22 + 3) \div 4 ELSE 0
C19_AbsentSuffix ==
  (Done /\ op = "read" /\ ReadSuccessShape(result))
  => /\ \A i, j \in DOMAIN result.items :
          (i < j /\ result.items[i] = PyEmptyStr) => result.items[j] = PyEmptyStr
     /\ Cardinality(C19_Numeric) = Min(length, C19_Slots)
     /\ Len(result.items) = length
C19_Witness ==
  /\ Done /\ op = "read" /\ length = 3
  /\ Len(recv_data) = 22 + 4 + 2
  /\ result.tag = "list" /\ Len(result.items) = 3
  /\ result.items[2].tag = "int"
  /\ result.items[3] = PyEmptyStr

\* C17: across sequential calls with responses that may arrive after the
\* receive timeout, a call that returns a success or data-error value has
\* decoded the response to the request it sent itself, not a late response
\* to the request of an earlier call.
C17_OwnResponse ==
  (Done /\ (SuccessShape \/ DataErrorShape))
  => /\ answers # <<>>
     /\ answers[Len(answers)] = "cur"

====
